---- MODULE Spec2Model ----
(***************************************************************************)
(* A model of Hyperparameters.py: the Hyperparameters class (construction, *)
(* _parse, the canonical serializer, the hash entry points) and the static *)
(* parse_command_line with its helpers parse_helper / reconstruct_helper.  *)
(*                                                                         *)
(* Representation of Python values                                         *)
(*   str            a sequence of one-character strings, <<"a", ":", "b">> *)
(*   int            [t |-> "int",  n |-> 3]                                *)
(*   str value      [t |-> "str",  s |-> <<"N","o","n","e">>]              *)
(*   bool           [t |-> "bool", b |-> TRUE]                             *)
(*   None           [t |-> "none"]                                         *)
(*   dict (value)   [t |-> "dict", items |-> <<  <<key, value>>, ... >>]   *)
(*                  items in insertion order, keys distinct                *)
(*   dict (object)  [t |-> "ref",  a |-> address]  into the variable heap  *)
(* Floats are not modelled; str() of the other leaf types is.              *)
(***************************************************************************)
EXTENDS Integers, Sequences, FiniteSets, TLC

VARIABLES
    \* ---- object life cycle (Spec) ----
    py3,            \* TRUE: dict.keys() is a live view (Python 3); FALSE: a list copy (Python 2)
    heap,           \* the dict objects: heap[a] is the item sequence of the dict at address a
    lits,           \* the caller's script: the literals it builds its three mappings from
    caller,         \* the caller's references: [H, N, O], an address or 0 for None
    objs,           \* the Hyperparameters objects constructed so far
    call,           \* the last constructor call: its inputs by value and its outcome
    ret,            \* what the last get_hash() / get_hash_all_hps() call returned
    nmut,           \* how many mutations the caller has made
    \* ---- canonical serializer (SpecSer) ----
    d,              \* a dict, and
    d2,             \* a dict holding the same pairs, inserted in another order
    str_to_hash,    \* <<_sorted_str_from_dict(d), _sorted_str_from_dict(d2)>>
    hps_hash,       \* <<_generate_hash(d), _generate_hash(d2)>>
    \* ---- command line / path codec (SpecPath) ----
    default_hps,    \* parse_command_line's argument
    hps_flat,       \* vars(args): the flat mapping, keys colon-delimited
    D_unflattened,  \* reconstruct_helper's accumulating result
    idx,            \* how many items of hps_flat the loop has consumed
    pdb_hit,        \* whether the pdb.set_trace() of add_helper was reached
    pc              \* position of the pure-function specifications

lifeVars == <<py3, heap, lits, caller, objs, call, ret, nmut>>
serVars == <<d, d2, str_to_hash, hps_hash>>
pathVars == <<default_hps, hps_flat, D_unflattened, idx, pdb_hit>>
vars == <<lifeVars, serVars, pathVars, pc>>

\* ------------------------------------------------------------------ bounds

\* Longest dict (number of keys) the serializer is fed.
MaxKeys == 2

\* ------------------------------------------------------------- Python str

\* ord(c) for the characters the model uses.
Code(c) ==
    CASE c = " " -> 32 [] c = "," -> 44
      [] c = "0" -> 48 [] c = "1" -> 49 [] c = "2" -> 50 [] c = "3" -> 51
      [] c = "4" -> 52 [] c = "5" -> 53 [] c = "6" -> 54 [] c = "7" -> 55
      [] c = "8" -> 56 [] c = "9" -> 57 [] c = ":" -> 58
      [] c = "F" -> 70 [] c = "N" -> 78 [] c = "T" -> 84 [] c = "_" -> 95
      [] c = "a" -> 97 [] c = "b" -> 98 [] c = "c" -> 99 [] c = "d" -> 100
      [] c = "e" -> 101 [] c = "h" -> 104 [] c = "l" -> 108 [] c = "n" -> 110
      [] c = "o" -> 111 [] c = "p" -> 112 [] c = "r" -> 114 [] c = "s" -> 115
      [] c = "t" -> 116 [] c = "u" -> 117 [] c = "x" -> 120 [] c = "y" -> 121
      [] c = "z" -> 122 [] c = "{" -> 123 [] c = "}" -> 125

\* s < t for two strings: code point by code point, a proper prefix first.
RECURSIVE StrLess(_, _)
StrLess(s, t) ==
    IF t = <<>> THEN FALSE
    ELSE IF s = <<>> THEN TRUE
    ELSE IF Code(Head(s)) # Code(Head(t)) THEN Code(Head(s)) < Code(Head(t))
    ELSE StrLess(Tail(s), Tail(t))

Digit(n) ==
    CASE n = 0 -> "0" [] n = 1 -> "1" [] n = 2 -> "2" [] n = 3 -> "3" [] n = 4 -> "4"
      [] n = 5 -> "5" [] n = 6 -> "6" [] n = 7 -> "7" [] n = 8 -> "8" [] n = 9 -> "9"

\* str(n) for a non-negative int.
RECURSIVE IntStr(_)
IntStr(n) == IF n < 10 THEN <<Digit(n)>> ELSE IntStr(n \div 10) \o <<Digit(n % 10)>>

\* ------------------------------------------------------------ Python values

PyInt(n) == [t |-> "int", n |-> n]
PyStr(s) == [t |-> "str", s |-> s]
PyBool(b) == [t |-> "bool", b |-> b]
PyNone == [t |-> "none"]
PyDict(items) == [t |-> "dict", items |-> items]
PyRef(a) == [t |-> "ref", a |-> a]

IsDict(v) == v.t = "dict"

NoneText == <<"N", "o", "n", "e">>

\* d.keys() as a set, key in d, d[key], d[key] = val (an existing key keeps its place).
DictKeys(items) == {items[i][1] : i \in DOMAIN items}
HasKey(items, key) == \E i \in DOMAIN items : items[i][1] = key
Get(items, key) == items[CHOOSE i \in DOMAIN items : items[i][1] = key][2]
Put(items, key, val) ==
    IF HasKey(items, key)
    THEN [items EXCEPT ![CHOOSE i \in DOMAIN items : items[i][1] = key] = <<key, val>>]
    ELSE Append(items, <<key, val>>)

\* a == b for two values: dicts compare by content whatever the insertion order,
\* values of different types are unequal (no bool/int mixing is modelled).
RECURSIVE PyEq(_, _)
PyEq(a, b) ==
    IF a.t # b.t THEN FALSE
    ELSE IF a.t = "dict"
    THEN /\ DictKeys(a.items) = DictKeys(b.items)
         /\ \A k \in DictKeys(a.items) : PyEq(Get(a.items, k), Get(b.items, k))
    ELSE a = b

\* str(val) for a value that is no dict.
StrOf(val) ==
    CASE val.t = "int" -> IntStr(val.n)
      [] val.t = "str" -> val.s
      [] val.t = "bool" -> IF val.b THEN <<"T", "r", "u", "e">> ELSE <<"F", "a", "l", "s", "e">>
      [] val.t = "none" -> NoneText

\* ------------------------------------------------------ canonical serializer

\* numpy.sort(list(d.keys())): the keys in ascending order.
RECURSIVE SortStrs(_)
SortStrs(S) ==
    IF S = {} THEN <<>>
    ELSE LET m == CHOOSE x \in S : \A y \in S \ {x} : StrLess(x, y)
         IN  <<m>> \o SortStrs(S \ {m})

\* The mutant of sorted_keys: the keys as the dict iterates them.
InsertionOrderKeys(items) == [i \in DOMAIN items |-> items[i][1]]

sorted_keys(items) == SortStrs(DictKeys(items))

\* Hyperparameters._sorted_str_from_dict
RECURSIVE _sorted_str_from_dict(_)
RECURSIVE EntriesFrom(_, _, _)
EntriesFrom(items, keys, key_idx) ==
    IF key_idx > Len(keys) THEN <<>>
    ELSE LET key == keys[key_idx]
             val == Get(items, key)
             str_val == IF IsDict(val) THEN _sorted_str_from_dict(val.items) ELSE StrOf(val)
             new_entry == key \o <<":", " ">> \o str_val
         IN  new_entry
             \o (IF key_idx < Len(keys) THEN <<",", " ">> ELSE <<>>)
             \o EntriesFrom(items, keys, key_idx + 1)
_sorted_str_from_dict(items) ==
    <<"{">> \o EntriesFrom(items, sorted_keys(items), 1) \o <<"}">>

\* Number of hex characters of a SHA-512 hexdigest.
DigestLen == 128

RECURSIVE WeightedSum(_, _, _)
WeightedSum(s, i, w) ==
    IF i > Len(s) THEN 0 ELSE Code(s[i]) * (i + w) + WeightedSum(s, i + 1, w)

\* hashlib.new('sha512') over the string: SHA-512 itself is replaced by a
\* position-weighted checksum, a deterministic function of the characters that
\* yields DigestLen hex digits (0..15).
hexdigest(s) ==
    LET s0 == WeightedSum(s, 1, 0)
        s1 == WeightedSum(s, 1, 1) - s0
    IN  [i \in 1..DigestLen |-> (s0 + i * s1 + i * i * Len(s) + 7 * i) % 16]

\* Hyperparameters._generate_hash
_generate_hash(items) ==
    LET string == _sorted_str_from_dict(items)
    IN  hexdigest(string)

\* ------------------------------------------- the serializer's inputs, steps

KeyA == <<"a">>
KeyAB == <<"a", "b">>
KeyB == <<"b">>
KeyX == <<"x">>
KeyY == <<"y">>

\* All item sequences of at most n keys over Keys with values from Vals.
DictsOver(Keys, Vals, n) ==
    UNION {{s \in [1..m -> Keys \X Vals] :
               \A i, j \in 1..m : i # j => s[i][1] # s[j][1]} : m \in 0..n}

SerInner == {PyDict(s) : s \in DictsOver({KeyX, KeyY}, {PyInt(1)}, 2)}
SerLeaves == {PyInt(20), PyNone}
SerDicts == DictsOver({KeyA, KeyAB, KeyB}, SerLeaves \cup SerInner, MaxKeys)

\* The variables of the specifications that are not running.
IdleLife ==
    /\ py3 = TRUE
    /\ heap = <<>>
    /\ lits = <<>>
    /\ caller = <<>>
    /\ objs = <<>>
    /\ call = <<>>
    /\ ret = <<>>
    /\ nmut = 0
IdleSer ==
    /\ d = <<>>
    /\ d2 = <<>>
    /\ str_to_hash = <<>>
    /\ hps_hash = <<>>
IdlePath ==
    /\ default_hps = <<>>
    /\ hps_flat = <<>>
    /\ D_unflattened = <<>>
    /\ idx = 0
    /\ pdb_hit = FALSE

\* The sequences that take their i-th element from choices[i].
RECURSIVE SeqsFrom(_)
SeqsFrom(choices) ==
    IF choices = <<>> THEN {<<>>}
    ELSE {<<h>> \o rest : h \in Head(choices), rest \in SeqsFrom(Tail(choices))}

Perms(n) == {p \in [1..n -> 1..n] : \A i, j \in 1..n : i # j => p[i] # p[j]}

\* Every dict holding the pairs of items, in any insertion order at every depth.
RECURSIVE Reorderings(_)
Reorderings(items) ==
    LET Alts(v) == IF IsDict(v) THEN {PyDict(r) : r \in Reorderings(v.items)} ELSE {v}
    IN  UNION {SeqsFrom([i \in DOMAIN items |->
                            {<<items[p[i]][1], v>> : v \in Alts(items[p[i]][2])}])
               : p \in Perms(Len(items))}

InitSer ==
    /\ d \in SerDicts
    /\ d2 \in Reorderings(d)
    /\ str_to_hash = <<>>
    /\ hps_hash = <<>>
    /\ pc = "ser"
    /\ IdleLife
    /\ IdlePath

\* _sorted_str_from_dict on both dicts (lines 199-222).
SerStr ==
    /\ pc = "ser"
    /\ str_to_hash = <<>>
    /\ str_to_hash' = <<_sorted_str_from_dict(d), _sorted_str_from_dict(d2)>>
    /\ UNCHANGED <<d, d2, hps_hash, lifeVars, pathVars, pc>>

\* _generate_hash on both dicts (lines 234-241).
SerHash ==
    /\ pc = "ser"
    /\ str_to_hash # <<>>
    /\ hps_hash = <<>>
    /\ hps_hash' = <<_generate_hash(d), _generate_hash(d2)>>
    /\ UNCHANGED <<d, d2, str_to_hash, lifeVars, pathVars, pc>>

\* ------------------------------------------- parse_command_line, path codec

PyErr == [t |-> "error"]

HasColon(key) == \E i \in DOMAIN key : key[i] = ":"

\* parse_key: split at the first colon.
first_colon_idx(key) == CHOOSE i \in DOMAIN key : key[i] = ":" /\ \A j \in 1..(i - 1) : key[j] # ":"
dict_name(key) == SubSeq(key, 1, first_colon_idx(key) - 1)
rem_key(key) == SubSeq(key, first_colon_idx(key) + 1, Len(key))

RECURSIVE assign_leaf(_, _)
assign_leaf(key, val) ==
    IF HasColon(key)
    THEN PyDict(<< <<dict_name(key), assign_leaf(rem_key(key), val)>> >>)
    ELSE PyDict(<< <<key, val>> >>)

\* The mutant of MergeInto: the existing sub-dict is replaced by the new leaf's path.
OverwriteInto(D, key, val) == assign_leaf(rem_key(key), val)

\* add_helper: D is a value; a D that is no dict (a leaf already stored under the
\* name) makes every branch raise TypeError, modelled as PyErr.
RECURSIVE add_helper(_, _, _)
\* Line 434: the value written under an existing dict_name.
MergeInto(D, key, val) == add_helper(Get(D.items, dict_name(key)), rem_key(key), val)

add_helper(D, key, val) ==
    IF ~IsDict(D) THEN PyErr
    ELSE IF HasColon(key)
    THEN IF HasKey(D.items, dict_name(key))
         THEN LET sub == MergeInto(D, key, val)
              IN  IF sub = PyErr THEN PyErr ELSE PyDict(Put(D.items, dict_name(key), sub))
         ELSE PyDict(Put(D.items, dict_name(key), assign_leaf(rem_key(key), val)))
    ELSE PyDict(Put(D.items, key, val))

DataHps == <<"d", "a", "t", "a", "_", "h", "p", "s">>

\* Whether add_helper(D, key, val) reaches its pdb.set_trace() (lines 430-431).
RECURSIVE ReachesPdb(_, _)
ReachesPdb(D, key) ==
    /\ IsDict(D)
    /\ HasColon(key)
    /\ \/ dict_name(key) = DataHps
       \/ /\ HasKey(D.items, dict_name(key))
          /\ ReachesPdb(Get(D.items, dict_name(key)), rem_key(key))

\* reconstruct_helper as a whole: the fold of add_helper over D_flat.items().
RECURSIVE reconstruct_from(_, _, _)
reconstruct_from(D, D_flat, i) ==
    IF i > Len(D_flat) \/ D = PyErr THEN D
    ELSE reconstruct_from(add_helper(D, D_flat[i][1], D_flat[i][2]), D_flat, i + 1)
reconstruct_helper(D_flat) == reconstruct_from(PyDict(<<>>), D_flat, 1)

\* parse_helper: the arguments registered with the parser, in order, as
\* <<flag name without the leading dashes, default>>. A None or 'None' default is
\* registered without a default (argparse then uses None); dicts are recursed into.
RECURSIVE parse_helper(_, _)
RECURSIVE ParseItemsFrom(_, _, _)
ParseItemsFrom(D, str_prefix, i) ==
    IF i > Len(D) THEN <<>>
    ELSE LET key == D[i][1]
             val == D[i][2]
             here == IF val = PyNone \/ val = PyStr(NoneText)
                         THEN << <<str_prefix \o key, PyNone>> >>
                     ELSE IF IsDict(val)
                         THEN parse_helper(val.items, str_prefix \o key \o <<":">>)
                     ELSE << <<str_prefix \o key, val>> >>
         IN  here \o ParseItemsFrom(D, str_prefix, i + 1)
parse_helper(D, str_prefix) == ParseItemsFrom(D, str_prefix, 1)

\* argparse refuses to register the same option string twice.
Conflicting(flags) == \E i, j \in DOMAIN flags : i # j /\ flags[i][1] = flags[j][1]

\* ------------------------------------------- SpecSer: the serializer alone

NextSer == SerStr \/ SerHash

SpecSer == InitSer /\ [][NextSer]_vars

\* C2: two mappings holding the same key-value pairs (nested sub-mappings
\* included) inserted in different orders get identical canonical strings from
\* _sorted_str_from_dict and identical fingerprints from _generate_hash.
C2_OrderIndependent ==
    /\ (str_to_hash # <<>> => str_to_hash[1] = str_to_hash[2])
    /\ (hps_hash # <<>> => hps_hash[1] = hps_hash[2])

\* Both dicts hashed, the second in another insertion order than the first, at
\* the top level and inside a nested dict.
C2_Witness ==
    /\ hps_hash # <<>>
    /\ Len(d) >= 2
    /\ d[1][1] # d2[1][1]
    /\ \E i \in DOMAIN d : /\ IsDict(d[i][2])
                           /\ Len(d[i][2].items) = 2
                           /\ Get(d2, d[i][1]) # d[i][2]

\* ------------------------------------ SpecPath: parse_command_line, no flags

\* Most flags a flat declaration holds.
MaxFlat == 3

KeyC == <<"c">>
FlatKeys ==
    { <<"a", ":", "b", ":", "c">>, <<"a", ":", "b", ":", "d">>, <<"a", ":", "e">>,
      <<"a", ":", "b">>, <<"a">>, DataHps \o <<":", "x">> }

\* Declarations whose keys already carry the colon delimiter: every flat mapping
\* reconstruct_helper can be handed, in every insertion order.
FlatDecls == DictsOver(FlatKeys, {PyInt(1), PyInt(2)}, MaxFlat)

\* Nested declarations with colon-free keys, up to three levels deep.
DeclLeaves == {PyInt(3), PyBool(TRUE), PyStr(<<"a", "b">>), PyNone, PyStr(NoneText)}
DeclInner == {PyDict(s) : s \in DictsOver({KeyX, KeyY}, {PyInt(1), PyNone}, 2)}
DeclMid ==
    {PyDict(<< <<KeyB, v>> >>) :
        v \in {PyInt(2), PyDict(<<>>), PyDict(<< <<KeyX, PyInt(1)>>, <<KeyY, PyInt(2)>> >>)}}
NestedDecls == DictsOver({KeyA, KeyC}, DeclLeaves \cup DeclInner \cup DeclMid, 2)

InitPath ==
    /\ default_hps \in FlatDecls \cup NestedDecls
    /\ hps_flat = <<>>
    /\ D_unflattened = <<>>
    /\ idx = 0
    /\ pdb_hit = FALSE
    /\ pc = "start"
    /\ IdleLife
    /\ IdleSer

\* parse_command_line up to vars(args), with no flag on the command line (lines
\* 449-455): every registered argument takes its default. Line 442 follows.
ParseArgs ==
    /\ pc = "start"
    /\ LET flags == parse_helper(default_hps, <<>>)
       IN  IF Conflicting(flags)
           THEN /\ pc' = "ArgumentError"
                /\ UNCHANGED <<hps_flat, D_unflattened>>
           ELSE /\ hps_flat' = flags
                /\ D_unflattened' = PyDict(<<>>)
                /\ pc' = "flat"
    /\ UNCHANGED <<default_hps, idx, pdb_hit, lifeVars, serVars>>

\* One iteration of reconstruct_helper's loop (lines 443-445). Reaching the
\* pdb.set_trace() of line 431 is recorded; the debugger session is continued and
\* changes nothing.
ReconstructStep ==
    /\ pc = "flat"
    /\ idx < Len(hps_flat)
    /\ LET key == hps_flat[idx + 1][1]
           val == hps_flat[idx + 1][2]
           D == add_helper(D_unflattened, key, val)
       IN  /\ pdb_hit' = (pdb_hit \/ ReachesPdb(D_unflattened, key))
           /\ IF D = PyErr
              THEN pc' = "TypeError" /\ UNCHANGED <<D_unflattened, idx>>
              ELSE D_unflattened' = D /\ idx' = idx + 1 /\ pc' = pc
    /\ UNCHANGED <<default_hps, hps_flat, lifeVars, serVars>>

\* reconstruct_helper and parse_command_line return (lines 447, 458-460).
ReconstructReturn ==
    /\ pc = "flat"
    /\ idx = Len(hps_flat)
    /\ pc' = "done"
    /\ UNCHANGED <<pathVars, lifeVars, serVars>>

NextPath == ParseArgs \/ ReconstructStep \/ ReconstructReturn

SpecPath == InitPath /\ [][NextPath]_vars

\* A flat key's path: its colon-separated segments.
RECURSIVE Split(_)
Split(key) == IF HasColon(key) THEN <<dict_name(key)>> \o Split(rem_key(key)) ELSE <<key>>

IsProperPrefix(p, q) == Len(p) < Len(q) /\ SubSeq(q, 1, Len(p)) = p

PrefixFree(flat) ==
    \A i, j \in DOMAIN flat : ~IsProperPrefix(Split(flat[i][1]), Split(flat[j][1]))

Permuted(s, p) == [i \in DOMAIN s |-> s[p[i]]]

\* The leaves of a nested dict, each with the path of keys leading to it.
RECURSIVE Leaves(_, _)
Leaves(items, path) ==
    UNION {IF IsDict(items[i][2])
               THEN Leaves(items[i][2].items, Append(path, items[i][1]))
               ELSE {<<Append(path, items[i][1]), items[i][2]>>} : i \in DOMAIN items}

\* Every key of the declaration, at every depth, is free of the delimiter.
RECURSIVE ColonFree(_)
ColonFree(items) ==
    \A i \in DOMAIN items :
        /\ ~HasColon(items[i][1])
        /\ IsDict(items[i][2]) => ColonFree(items[i][2].items)

C9_ReturnsDefaults ==
    ColonFree(default_hps) =>
        /\ pc \notin {"ArgumentError", "TypeError"}
        /\ pc = "done" => PyEq(D_unflattened, PyDict(default_hps))

\* ------------------------------------------------- the heap of dict objects

\* The value a stored value stands for: a reference is followed, at every depth.
RECURSIVE Deref(_, _)
Deref(h, items) ==
    [i \in DOMAIN items |->
        <<items[i][1],
          IF items[i][2].t = "ref"
              THEN PyDict(Deref(h, h[items[i][2].a]))
              ELSE items[i][2]>>]
Resolve(h, v) == IF v.t = "ref" THEN PyDict(Deref(h, h[v.a])) ELSE v

\* A new dict object holding the value items, its nested dicts new objects too.
RECURSIVE AllocDict(_, _)
RECURSIVE AllocItems(_, _, _)
AllocItems(h, items, i) ==
    IF i > Len(items) THEN [heap |-> h, items |-> <<>>]
    ELSE LET v == items[i][2]
             sub == IF IsDict(v) THEN AllocDict(h, v.items) ELSE [heap |-> h, ref |-> v]
             rest == AllocItems(sub.heap, items, i + 1)
         IN  [heap |-> rest.heap, items |-> << <<items[i][1], sub.ref>> >> \o rest.items]
AllocDict(h, items) ==
    LET r == AllocItems(h, items, 1)
    IN  [heap |-> Append(r.heap, r.items), ref |-> PyRef(Len(r.heap) + 1)]

\* An argument that may be None: allocated when it is a dict.
AllocArg(h, v) == IF v = PyNone THEN [heap |-> h, ref |-> PyNone] ELSE AllocDict(h, v.items)

\* copy.deepcopy of the dict object at ref.
deepcopy(h, ref) == AllocDict(h, Deref(h, h[ref.a]))

\* dict.update: every item of other is stored into items (values by reference).
RECURSIVE update(_, _)
update(items, other) ==
    IF other = <<>> THEN items
    ELSE update(Put(items, Head(other)[1], Head(other)[2]), Tail(other))

\* ------------------------------------------------- Hyperparameters._parse

\* default_hash_hp_keys as the loop of _parse reads it (line 181), given the
\* hashed defaults' items before and after line 156: a live view under Python 3,
\* a list made at line 148 under Python 2.
default_hash_hp_keys(before, after) == IF py3 THEN DictKeys(after) ELSE DictKeys(before)

\* The mutant of new_hps_to_hash: the dict to hash starts from the hashed defaults.
AllHashedDefaults(hashed) == hashed

\* hps_to_hash = dict() of line 160.
new_hps_to_hash(hashed) == <<>>

\* np.all(val != default_hps[key]) of line 181.
IsNonDefault(h, val, default_val) == ~PyEq(Resolve(h, val), Resolve(h, default_val))

\* The loop of lines 164-182 from item i of input_hps on.
RECURSIVE ParseLoop(_, _, _, _, _, _, _)
ParseLoop(h, input_hps, i, default_hps_items, hash_keys, hps, hps_to_hash) ==
    IF i > Len(input_hps) THEN [err |-> FALSE, hps |-> hps, hps_to_hash |-> hps_to_hash]
    ELSE LET key == input_hps[i][1]
             val == IF input_hps[i][2] = PyStr(NoneText) THEN PyNone ELSE input_hps[i][2]
         IN  IF ~HasKey(default_hps_items, key)
             THEN [err |-> TRUE, hps |-> hps, hps_to_hash |-> hps_to_hash]
             ELSE ParseLoop(h, input_hps, i + 1, default_hps_items, hash_keys,
                      Put(hps, key, val),
                      IF key \in hash_keys /\ IsNonDefault(h, val, Get(default_hps_items, key))
                          THEN Put(hps_to_hash, key, val)
                          ELSE hps_to_hash)

Failed(h, outcome) == [outcome |-> outcome, heap |-> h, all |-> PyNone, hash |-> PyNone]

\* _parse on the caller's three references (lines 147-184). Objects a failed call
\* leaves behind unreferenced are not kept in the heap.
_parse(h, input_hps, default_hash_hps, default_non_hash_hps) ==
    IF default_hash_hps = PyNone THEN Failed(h, "AttributeError")          \* line 148
    ELSE IF default_non_hash_hps = PyNone THEN Failed(h, "AttributeError") \* line 149
    ELSE
    LET hashed == h[default_hash_hps.a]
        non_hashed == h[default_non_hash_hps.a]
    IN  IF DictKeys(non_hashed) \cap DictKeys(hashed) # {} THEN Failed(h, "ValueError")
        ELSE
        LET merged == update(hashed, non_hashed)                           \* lines 155-156
            h1 == [h EXCEPT ![default_hash_hps.a] = merged]
            copy == deepcopy(h1, default_hash_hps)                         \* line 159
        IN  IF input_hps = PyNone THEN Failed(h1, "AttributeError")        \* line 164
            ELSE
            LET loop == ParseLoop(copy.heap, copy.heap[input_hps.a], 1, merged,
                                  default_hash_hp_keys(hashed, merged),
                                  copy.heap[copy.ref.a], new_hps_to_hash(hashed))
                h2 == [copy.heap EXCEPT ![copy.ref.a] = loop.hps]
            IN  IF loop.err THEN Failed(h1, "ValueError")                  \* line 173
                ELSE [outcome |-> "ok",
                      heap |-> Append(h2, loop.hps_to_hash),
                      all |-> copy.ref,
                      hash |-> PyRef(Len(h2) + 1)]

\* Hyperparameters.__init__ up to line 78.
__init__(h, hps, default_hash_hps, default_non_hash_hps) ==
    IF default_hash_hps = PyNone /\ default_non_hash_hps = PyNone
    THEN Failed(h, "ValueError")
    ELSE _parse(h, hps, default_hash_hps, default_non_hash_hps)

Min(a, b) == IF a < b THEN a ELSE b

\* s[0:n] for n >= 0.
Slice(s, n) == SubSeq(s, 1, Min(n, Len(s)))

\* get_hash / get_hash_all_hps of an object whose dicts are at the given references.
get_hash(h, hash_ref, hash_len) == Slice(_generate_hash(Deref(h, h[hash_ref.a])), hash_len)
get_hash_all_hps(h, all_ref, hash_len) == Slice(_generate_hash(Deref(h, h[all_ref.a])), hash_len)

\* ---------------------------------------------------- Spec: the life cycle

\* Most objects constructed in one run, and most mutations the caller makes.
MaxObjs == 2
MaxMut == 1

KeyZ == <<"z">>
KeyN == <<"n">>
Nested1 == PyDict(<< <<KeyX, PyInt(1)>> >>)
Nested2 == PyDict(<< <<KeyX, PyInt(2)>> >>)

\* hash_len values the caller passes; the docstring allows 1 to 512.
HashLens == {1, 10, 128, 129, 512}

\* The caller's literals: a hashed key a, a hashed key b holding a dict, a
\* non-hashed key c; z is declared nowhere.
HashedLits ==
    { PyNone, PyDict(<<>>),
      PyDict(<< <<KeyA, PyInt(1)>> >>),
      PyDict(<< <<KeyA, PyInt(1)>>, <<KeyB, Nested1>> >>) }
NonHashedLits ==
    { PyNone, PyDict(<<>>),
      PyDict(<< <<KeyC, PyInt(1)>> >>),
      PyDict(<< <<KeyC, Nested1>> >>),
      PyDict(<< <<KeyA, PyInt(1)>> >>) }
OverrideLits ==
    { PyNone, PyDict(<<>>),
      PyDict(<< <<KeyA, PyInt(2)>> >>),
      PyDict(<< <<KeyA, PyInt(1)>> >>),
      PyDict(<< <<KeyA, PyStr(NoneText)>> >>),
      PyDict(<< <<KeyB, Nested2>> >>),
      PyDict(<< <<KeyB, Nested1>>, <<KeyA, PyInt(2)>> >>),
      PyDict(<< <<KeyC, PyInt(2)>> >>),
      PyDict(<< <<KeyC, Nested2>> >>),
      PyDict(<< <<KeyA, PyInt(2)>>, <<KeyC, PyInt(2)>> >>),
      PyDict(<< <<KeyZ, PyInt(1)>> >>),
      PyDict(<< <<KeyA, PyInt(2)>>, <<KeyZ, PyInt(1)>> >>) }

NoCall == [outcome |-> "none"]

\* The caller evaluates its three literals: new objects, in the order H, N, O.
Built(h, l) ==
    LET bH == AllocArg(h, l.H)
        bN == AllocArg(bH.heap, l.N)
        bO == AllocArg(bN.heap, l.O)
    IN  [heap |-> bO.heap, caller |-> [H |-> bH.ref, N |-> bN.ref, O |-> bO.ref]]

Init ==
    /\ py3 \in BOOLEAN
    /\ lits \in [H : HashedLits, N : NonHashedLits, O : OverrideLits,
                 hash_len : HashLens, added : {"no"}]
    /\ heap = Built(<<>>, lits).heap
    /\ caller = Built(<<>>, lits).caller
    /\ objs = <<>>
    /\ call = NoCall
    /\ ret = <<>>
    /\ nmut = 0
    /\ pc = "life"
    /\ IdleSer
    /\ IdlePath

\* The value behind one of the caller's references.
CallerVal(h, ref) == IF ref = PyNone THEN PyNone ELSE Resolve(h, ref)

\* Hyperparameters(hps=O, default_hash_hps=H, default_non_hash_hps=N, hash_len)
\* on the caller's current objects (lines 71-81). call records the arguments by
\* value as they were on entry and, for a call that returned, the two dicts on
\* return; the object records the attributes set at lines 80-81 and what
\* get_hash() and get_hash_all_hps() return right after construction.
Construct ==
    /\ pc = "life"
    /\ Len(objs) < MaxObjs
    /\ LET r == __init__(heap, caller.O, caller.H, caller.N)
           args == [H |-> CallerVal(heap, caller.H), N |-> CallerVal(heap, caller.N),
                    O |-> CallerVal(heap, caller.O), hash_len |-> lits.hash_len]
       IN  /\ heap' = r.heap
           /\ IF r.outcome = "ok"
              THEN /\ call' = [outcome |-> "ok", args |-> args,
                               all |-> Resolve(r.heap, r.all),
                               hash |-> Resolve(r.heap, r.hash)]
                   /\ objs' = Append(objs,
                          [all |-> r.all, hash |-> r.hash, hash_len |-> lits.hash_len,
                           attrs |-> r.heap[r.all.a], args |-> args, input |-> caller.O,
                           hash0 |-> get_hash(r.heap, r.hash, lits.hash_len),
                           hash_all0 |-> get_hash_all_hps(r.heap, r.all, lits.hash_len)])
              ELSE /\ call' = [outcome |-> r.outcome, args |-> args]
                   /\ objs' = objs
    /\ ret' = <<>>
    /\ UNCHANGED <<py3, lits, caller, nmut, serVars, pathVars, pc>>

\* hp.get_hash() (line 109).
GetHash ==
    /\ pc = "life"
    /\ \E o \in DOMAIN objs :
           ret' = [obj |-> o, fn |-> "get_hash",
                   val |-> get_hash(heap, objs[o].hash, objs[o].hash_len)]
    /\ UNCHANGED <<py3, heap, lits, caller, objs, call, nmut, serVars, pathVars, pc>>

\* hp.get_hash_all_hps() (line 121).
GetHashAllHps ==
    /\ pc = "life"
    /\ \E o \in DOMAIN objs :
           ret' = [obj |-> o, fn |-> "get_hash_all_hps",
                   val |-> get_hash_all_hps(heap, objs[o].all, objs[o].hash_len)]
    /\ UNCHANGED <<py3, heap, lits, caller, objs, call, nmut, serVars, pathVars, pc>>

\* The value the caller writes when it mutates something.
Scribble == PyInt(9)

\* The caller stores into the dict object at address a: under one of its keys, or
\* under a new key.
StoreInto(a) ==
    \E key \in DictKeys(heap[a]) \cup {KeyZ} :
        heap' = [heap EXCEPT ![a] = Put(heap[a], key, Scribble)]

\* After a construction, the caller assigns into the override mapping it passed.
MutateOverride ==
    /\ pc = "life"
    /\ nmut < MaxMut
    /\ \E o \in DOMAIN objs : StoreInto(objs[o].input.a)
    /\ nmut' = nmut + 1
    /\ ret' = <<>>
    /\ UNCHANGED <<py3, lits, caller, objs, call, serVars, pathVars, pc>>

\* After a construction, the caller assigns into a dict nested in the override
\* mapping it passed.
MutateOverrideNested ==
    /\ pc = "life"
    /\ nmut < MaxMut
    /\ \E o \in DOMAIN objs :
           \E i \in DOMAIN heap[objs[o].input.a] :
               /\ heap[objs[o].input.a][i][2].t = "ref"
               /\ StoreInto(heap[objs[o].input.a][i][2].a)
    /\ nmut' = nmut + 1
    /\ ret' = <<>>
    /\ UNCHANGED <<py3, lits, caller, objs, call, serVars, pathVars, pc>>

\* The caller assigns into the dict that hp.__dict__() returned (line 92).
MutateDictView ==
    /\ pc = "life"
    /\ nmut < MaxMut
    /\ \E o \in DOMAIN objs : StoreInto(objs[o].all.a)
    /\ nmut' = nmut + 1
    /\ ret' = <<>>
    /\ UNCHANGED <<py3, lits, caller, objs, call, serVars, pathVars, pc>>

\* The caller reads an attribute set at line 81 and assigns into the dict it got.
MutateAttrValue ==
    /\ pc = "life"
    /\ nmut < MaxMut
    /\ \E o \in DOMAIN objs :
           \E i \in DOMAIN objs[o].attrs :
               /\ objs[o].attrs[i][2].t = "ref"
               /\ StoreInto(objs[o].attrs[i][2].a)
    /\ nmut' = nmut + 1
    /\ ret' = <<>>
    /\ UNCHANGED <<py3, lits, caller, objs, call, serVars, pathVars, pc>>

\* A later version of the caller's script declares one more hyperparameter n, in
\* the hashed or in the non-hashed defaults, and evaluates its literals anew; the
\* overrides are the ones it always passed.
DeclareNewDefault ==
    /\ pc = "life"
    /\ lits.added = "no"
    /\ Len(objs) >= 1
    /\ \E which \in {"H", "N"} :
           /\ lits[which] # PyNone
           /\ lits' = [lits EXCEPT ![which] = PyDict(Append(@.items, <<KeyN, PyInt(7)>>)),
                                   !.added = which]
    /\ heap' = Built(heap, lits').heap
    /\ caller' = Built(heap, lits').caller
    /\ call' = NoCall
    /\ ret' = <<>>
    /\ UNCHANGED <<py3, objs, nmut, serVars, pathVars, pc>>

Next ==
    \/ Construct
    \/ GetHash
    \/ GetHashAllHps
    \/ MutateOverride
    \/ MutateOverrideNested
    \/ MutateDictView
    \/ MutateAttrValue
    \/ DeclareNewDefault

Spec == Init /\ [][Next]_vars

\* Construction and the evolution of the defaults alone: no caller mutation, no
\* hash call after construction.
NextEvolve == Construct \/ DeclareNewDefault

SpecEvolve == Init /\ [][NextEvolve]_vars

\* ------------------------------------------------------------------ claims

\* The keys of an argument given by value, none for an omitted one.
ArgKeys(v) == IF v = PyNone THEN {} ELSE DictKeys(v.items)

\* C1: after a successful construction the Hashed Subset is exactly the pairs
\* (k, effective value of k) for the keys k declared in hashedDefaults whose
\* effective value differs from the declared default; no key declared in
\* nonHashedDefaults is in it.
C1_HashedSubsetExact ==
    call.outcome = "ok" =>
        LET hashed == call.args.H.items
            non_hashed == call.args.N.items
            effective == call.all.items
            subset == call.hash.items
        IN  /\ DictKeys(subset) =
                   {k \in DictKeys(hashed) : ~PyEq(Get(effective, k), Get(hashed, k))}
            /\ \A k \in DictKeys(subset) : PyEq(Get(subset, k), Get(effective, k))
            /\ DictKeys(subset) \cap DictKeys(non_hashed) = {}

\* A key is declared in both default sets; an override key is declared in neither.
DeclaredTwice(args) == ArgKeys(args.H) \cap ArgKeys(args.N) # {}
UnknownOverride(args) == ~(ArgKeys(args.O) \subseteq ArgKeys(args.H) \cup ArgKeys(args.N))

\* C5: a construction that succeeds had no key declared in both default sets and
\* no override key outside their union; in either violating case the constructor
\* raises ValueError.
C5_OnlyValidInputs ==
    call.outcome # "none" =>
        /\ call.outcome = "ok" => ~DeclaredTwice(call.args) /\ ~UnknownOverride(call.args)
        /\ DeclaredTwice(call.args) \/ UnknownOverride(call.args) => call.outcome = "ValueError"

\* C6: construction raises ValueError when neither default set is supplied or
\* both are empty, and succeeds when exactly one default set is supplied together
\* with overrides that are omitted, empty or name only keys of the supplied set.
C6_OneDefaultSetSuffices ==
    call.outcome # "none" =>
        LET a == call.args
        IN  /\ a.H = PyNone /\ a.N = PyNone => call.outcome = "ValueError"
            /\ a.H = PyDict(<<>>) /\ a.N = PyDict(<<>>) => call.outcome = "ValueError"
            /\ (a.H = PyNone) # (a.N = PyNone) /\ ~UnknownOverride(a) => call.outcome = "ok"

\* C7: for hash_len in 1..512, get_hash() and get_hash_all_hps() return exactly
\* hash_len hex characters, the first hash_len characters of the digest.
C7_HashHasHashLen ==
    ret # <<>> /\ objs[ret.obj].hash_len \in 1..512 =>
        LET o == objs[ret.obj]
            digest == _generate_hash(Deref(heap,
                          heap[IF ret.fn = "get_hash" THEN o.hash.a ELSE o.all.a]))
        IN  /\ Len(ret.val) = o.hash_len
            /\ \A i \in DOMAIN ret.val : ret.val[i] \in 0..15 /\ ret.val[i] = digest[i]

\* C8: whatever the caller does with the attribute values, the dict view or the
\* override mapping it passed, get_hash() and get_hash_all_hps() return on every
\* later call what they returned right after construction.
C8_HashesNeverChange ==
    ret # <<>> =>
        ret.val = IF ret.fn = "get_hash" THEN objs[ret.obj].hash0 ELSE objs[ret.obj].hash_all0

\* The outcome of the last call had it been the only construction: the script's
\* default literals and the overrides of the call, all newly built.
Alone ==
    LET b == Built(<<>>, [lits EXCEPT !.O = call.args.O])
        r == __init__(b.heap, b.caller.O, b.caller.H, b.caller.N)
    IN  IF r.outcome = "ok"
        THEN [outcome |-> "ok", all |-> Resolve(r.heap, r.all), hash |-> Resolve(r.heap, r.hash)]
        ELSE [outcome |-> r.outcome]

\* C10: construction leaves the caller's two default mappings as they were, and
\* every construction from the same pair of default mappings has the outcome it
\* would have as the only one: same success or failure, same Effective
\* Configuration, same Hashed Subset.
C10_DefaultsUntouched ==
    /\ CallerVal(heap, caller.H) = lits.H
    /\ CallerVal(heap, caller.N) = lits.N
    /\ call.outcome # "none" =>
           /\ call.outcome = Alone.outcome
           /\ call.outcome = "ok" => call.all = Alone.all /\ call.hash = Alone.hash

\* later declares exactly the defaults of earlier plus one new key, in the hashed
\* or in the non-hashed set.
PlusOneKey(small, big) ==
    /\ small # PyNone /\ big # PyNone
    /\ \E k \in DictKeys(big.items) \ DictKeys(small.items) :
           /\ DictKeys(big.items) = DictKeys(small.items) \cup {k}
           /\ \A key \in DictKeys(small.items) :
                  PyEq(Get(small.items, key), Get(big.items, key))
AddsOneDefault(earlier, later) ==
    \/ PlusOneKey(earlier.H, later.H) /\ earlier.N = later.N
    \/ PlusOneKey(earlier.N, later.N) /\ earlier.H = later.H

\* C3: two successful constructions with the same overrides and hash_len, the
\* second from defaults that declare one more key (hashed or non-hashed) the
\* overrides do not mention, return the same get_hash().
C3_DefaultOmissionStable ==
    \A i, j \in DOMAIN objs :
        /\ AddsOneDefault(objs[i].args, objs[j].args)
        /\ objs[i].args.O = objs[j].args.O
        /\ objs[i].hash_len = objs[j].hash_len
        => objs[i].hash0 = objs[j].hash0

\* Two such constructions, the new key hashed, with a non-empty Hashed Subset.
C3_Witness ==
    /\ Len(objs) = 2
    /\ PlusOneKey(objs[1].args.H, objs[2].args.H)
    /\ objs[1].args.O = objs[2].args.O
    /\ heap[objs[2].hash.a] # <<>>
    /\ objs[2].hash_len = 128

====
